---- MODULE Spec2Model ----
(***************************************************************************)
(* Attachment ingestion and storage lifecycle of claude-discord-bridge     *)
(* (src/src/attachment_manager.py): FileValidator, FileNamingStrategy,     *)
(* StorageManager, AttachmentDownloader and AttachmentManager.             *)
(*                                                                         *)
(* The storage directory is a map from file names to file records. A batch *)
(* (one process_attachments call) owns one task per descriptor; a task     *)
(* moves between the suspension points of download_attachment. The clock   *)
(* is in seconds. cleanup_old_files has no await in it, so a sweep is one  *)
(* step of the event loop.  mgr tells whether an AttachmentManager exists, *)
(* dirState what the file system holds at config_dir/attachments, probe    *)
(* the last synchronous call made from outside and what it gave.           *)
(*                                                                         *)
(* Around it stand the two processes that use it: the Discord bot          *)
(* (src/src/discord_bot.py), whose on_ready and cleanup_task run the       *)
(* retention sweep and whose on_message runs a batch and posts the result  *)
(* to the bridge, and the bridge (src/src/flask_app.py), which validates a *)
(* posted message and types it into a tmux session.  bot is the state of   *)
(* the bot's maintenance, msg the on_message handler at work, bridge the   *)
(* request the bridge handled last.                                        *)
(***************************************************************************)
EXTENDS Integers, Sequences, FiniteSets, TLC

VARIABLES now, ticks, files, call, calls, tasks, settled, sweep, ioLog,
          mgr, dirState, probe, bot, msg, bridge

vars == <<now, ticks, files, call, calls, tasks, settled, sweep, ioLog,
          mgr, dirState, probe, bot, msg, bridge>>

----------------------------------------------------------------------------
(* Bounds of the model *)

\* descriptors in one batch
MaxBatch == 2
\* process_attachments calls in one behaviour
MaxCalls == 1
\* clock advances in one behaviour
MaxTicks == 1
\* retention sweeps in one behaviour
MaxSweeps == 1
\* values secrets.token_hex(3) is drawn from (16^6 in the program)
NumSuffix == 2
\* descriptors in one batch where only the fan-out is followed
MaxFanOut == 6
\* on_ready events (the first connect and the reconnects) in one behaviour
MaxReady == 2
\* iterations of the periodic cleanup loop in one behaviour
MaxIterations == 2
\* messages handled by on_message in one behaviour
MaxMessages == 1

----------------------------------------------------------------------------
(* Program constants *)

MAX_FILE_SIZE == 8388608
DOWNLOAD_TIMEOUT_SECONDS == 30
MAX_CONCURRENT_DOWNLOADS == 5
SecondsPerDay == 86400
DefaultMaxAgeDays == 1

SUPPORTED_EXTENSIONS == {".png", ".jpg", ".jpeg", ".gif", ".webp", ".bmp", ".tiff"}

----------------------------------------------------------------------------
(* Descriptors: what the caller hands to process_attachments.  hasName is  *)
(* FALSE for a duck-typed object that lacks the filename attribute.        *)
(* Batches are drawn from Descriptors; GoodPng and NoSuffix are further    *)
(* inputs of the validator and of the naming strategy.                     *)

Descriptor(h, s, e, z, u) ==
    [hasName |-> h, stem |-> s, ext |-> e, size |-> z, url |-> u]

GoodPng  == Descriptor(TRUE, "a", ".png", 100, "u1")
GoodJPG  == Descriptor(TRUE, "B", ".JPG", MAX_FILE_SIZE, "u2")
BadExe   == Descriptor(TRUE, "c", ".exe", 100, "u3")
TooBig   == Descriptor(TRUE, "d", ".png", MAX_FILE_SIZE + 1, "u4")
NoSuffix == Descriptor(TRUE, "e", "", 100, "u5")
Nameless == Descriptor(FALSE, "", "", 100, "u6")

Descriptors == {GoodJPG, BadExe, TooBig, Nameless}

NoDesc == Descriptor(FALSE, "-", "-", 0 - 1, "-")

\* str.lower() on the extensions the model uses
Lower(e) ==
    CASE e = ".PNG" -> ".png"
      [] e = ".JPG" -> ".jpg"
      [] e = ".EXE" -> ".exe"
      [] e = ".Jpeg" -> ".jpeg"
      [] e = ".GZ" -> ".gz"
      [] OTHER -> e

(* A filename is the sequence of its parts between the dots: "g.tar.GZ" is  *)
(* <<"g", "tar", "GZ">>, ".bashrc" is <<"", "bashrc">>, "f." is <<"f", "">>. *)

\* a dot followed by a part, on the parts the model uses
Dot(part) ==
    CASE part = "png" -> ".png"
      [] part = "JPG" -> ".JPG"
      [] part = "Jpeg" -> ".Jpeg"
      [] part = "exe" -> ".exe"
      [] part = "GZ" -> ".GZ"
      [] part = "bashrc" -> ".bashrc"
      [] OTHER -> "."

\* PurePath.suffix: the name from its last dot on, unless that dot is the
\* first or the last character of the name
suffix(parts) ==
    LET n == Len(parts)
    IN  IF n >= 2 /\ parts[n] # "" /\ ~(n = 2 /\ parts[1] = "")
        THEN Dot(parts[n]) ELSE ""

\* the attachment object with that filename and size
Attachment(parts, size) == Descriptor(TRUE, parts[1], suffix(parts), size, "u0")

----------------------------------------------------------------------------
(* FileValidator *)

is_supported_format(d) == Lower(d.ext) \in SUPPORTED_EXTENSIONS

is_valid_size(size) == size <= MAX_FILE_SIZE

\* validate_attachment with the size check left out
validate_without_size(d) ==
    IF ~d.hasName THEN [raised |-> TRUE, ok |-> FALSE, msg |-> "AttributeError"]
    ELSE IF ~is_supported_format(d)
         THEN [raised |-> FALSE, ok |-> FALSE, msg |-> "Unsupported file format"]
    ELSE [raised |-> FALSE, ok |-> TRUE, msg |-> "None"]

\* the checks in the other order
validate_size_first(d) ==
    IF ~d.hasName THEN [raised |-> TRUE, ok |-> FALSE, msg |-> "AttributeError"]
    ELSE IF ~is_valid_size(d.size)
         THEN [raised |-> FALSE, ok |-> FALSE, msg |-> "File too large"]
    ELSE IF ~is_supported_format(d)
         THEN [raised |-> FALSE, ok |-> FALSE, msg |-> "Unsupported file format"]
    ELSE [raised |-> FALSE, ok |-> TRUE, msg |-> "None"]

\* (is_valid, error_msg); reading attachment.filename of a nameless object
\* raises.  msg is the fixed text of the reason: the f-strings add the
\* filename to the first and the size and the limit to the second.
validate_attachment(d) ==
    IF ~d.hasName THEN [raised |-> TRUE, ok |-> FALSE, msg |-> "AttributeError"]
    ELSE IF ~is_supported_format(d)
         THEN [raised |-> FALSE, ok |-> FALSE, msg |-> "Unsupported file format"]
    ELSE IF ~is_valid_size(d.size)
         THEN [raised |-> FALSE, ok |-> FALSE, msg |-> "File too large"]
    ELSE [raised |-> FALSE, ok |-> TRUE, msg |-> "None"]

----------------------------------------------------------------------------
(* File names.  A name is prefix ++ stamp ++ "_" ++ sfx ++ ext; stamp is   *)
(* the second strftime formats as YYYYMMDD_HHMMSS and sfx the token_hex    *)
(* value.  form tells whether the part after the prefix has that shape:    *)
(* "gen" for <stamp>_<6 hex>, "other" for any other text.                  *)

Name(p, f, t, x, e) == [prefix |-> p, form |-> f, stamp |-> t, sfx |-> x, ext |-> e]

NoName == Name("", "none", 0, 0, "")

\* the name without the default for a missing extension
generate_without_default(d, t, x) == Name("IMG_", "gen", t, x, Lower(d.ext))

\* the name under another prefix
generate_lower_prefix(d, t, x) ==
    LET extension == Lower(d.ext)
    IN  Name("img_", "gen", t, x, IF extension = "" THEN ".bin" ELSE extension)

generate_unique_filename(d, t, x) ==
    LET extension == Lower(d.ext)
    IN  Name("IMG_", "gen", t, x, IF extension = "" THEN ".bin" ELSE extension)

(* The text of a generated name, as a sequence of characters followed by   *)
(* the extension.  The clock of the model counts seconds from the start of *)
(* the run, taken to be 2026-11-03 00:00:00 local time.                    *)

Chars == <<"0", "1", "2", "3", "4", "5", "6", "7", "8", "9",
           "a", "b", "c", "d", "e", "f">>

\* n in base b, in at least w characters, padded with zeros
RECURSIVE Numeral(_, _, _)
Numeral(n, b, w) ==
    IF n < b /\ w <= 1 THEN <<Chars[n + 1]>>
    ELSE Numeral(n \div b, b, w - 1) \o <<Chars[(n % b) + 1]>>

\* strftime("%Y%m%d_%H%M%S") of the clock value t
strftime(t) ==
    LET days == t \div SecondsPerDay
        secs == t % SecondsPerDay
    IN  Numeral(2026, 10, 4) \o Numeral(11, 10, 2) \o Numeral(3 + days, 10, 2)
          \o <<"_">>
          \o Numeral(secs \div 3600, 10, 2) \o Numeral((secs \div 60) % 60, 10, 2)
          \o Numeral(secs % 60, 10, 2)

\* secrets.token_hex(3): three random bytes as six hexadecimal characters
token_hex(x) == Numeral(x, 16, 6)

\* f"IMG_{timestamp}_{random_suffix}{extension}"
NameText(n) ==
    <<"I", "M", "G", "_">> \o strftime(n.stamp) \o <<"_">> \o token_hex(n.sfx) \o <<n.ext>>

\* attachments_dir / filename, made absolute
get_storage_path(n) == [dir |-> "attachments", name |-> n]

\* a sweep that globs '*' instead of 'IMG_*'
GlobEverything(n) == n.prefix = n.prefix

\* Path.glob('IMG_*')
GlobIMG(n) == n.prefix = "IMG_"

\* the layout pattern IMG_<YYYYMMDD_HHMMSS>_<6-hex>.<ext>
MatchesPattern(n) == n.prefix = "IMG_" /\ n.form = "gen" /\ n.ext # ""

----------------------------------------------------------------------------
(* Files already in the directory when the program starts *)

NotesTxt   == Name("notes", "other", 0, 0, ".txt")
IMGHoliday == Name("IMG_", "other", 0, 0, ".png")
OldImage   == Name("IMG_", "gen", 0 - 2 * SecondsPerDay, 0, ".png")

\* st_mtime, how far the save got, who wrote it and for which descriptor,
\* st_size, and whether the entry is a regular file or a directory
File(m, s, b, d, z) ==
    [mtime |-> m, st |-> s, by |-> b, desc |-> d, size |-> z, kind |-> "file"]

Outsider == <<0, 0>>

InitialDirs ==
    LET old == File(0 - 2 * SecondsPerDay, "chmod", Outsider, NoDesc, 10)
        day == File(0 - SecondsPerDay, "chmod", Outsider, NoDesc, 20)
    IN  { [n \in {} |-> old],
          [n \in {NotesTxt, IMGHoliday, OldImage} |-> IF n = OldImage THEN day ELSE old] }

----------------------------------------------------------------------------
(* Tasks.  pc is the state of the attachment, trail the states it has been *)
(* through, name the generated saved_name, gets the GETs issued for it,    *)
(* resp the status received (0: none yet), t0 the time the GET was issued, *)
(* outcome what the coroutine gave ("pending", "meta" for FileMetadata,    *)
(* "none", "raised"), why the exit it took.                                *)

Terminal == {"Stored", "Rejected", "Failed"}

NewTask ==
    [pc |-> "Received", trail |-> <<"Received">>, name |-> NoName, gets |-> 0,
     resp |-> 0, t0 |-> 0, outcome |-> "pending", why |-> ""]

Move(t, pc) == [t EXCEPT !.pc = pc, !.trail = Append(@, pc)]

Finish(t, pc, outcome, why) == [Move(t, pc) EXCEPT !.outcome = outcome, !.why = why]

Idx == DOMAIN tasks

InFlight(i) == tasks[i].pc = "Fetching"

Batches == UNION { [1..k -> Descriptors] : k \in 0..MaxBatch }

(* sweep holds the count of sweeps run and what the last one returned and  *)
(* logged; the caller consumes the return value, so the next step of any   *)
(* other kind clears it.                                                   *)

NoReturn(k) == [n |-> k, live |-> FALSE, days |-> 0, ret |-> 0, errs |-> 0,
                aborted |-> FALSE, raised |-> FALSE]

(* probe holds the last call of the constructor, of get_storage_info, of   *)
(* the validator or of the naming strategy: its name, its argument, whether *)
(* it raised and what it returned.  It is consumed like a sweep's return.  *)

Probe(op, arg, raised, out) == [op |-> op, arg |-> arg, raised |-> raised, out |-> out]

NoProbe == Probe("none", <<>>, FALSE, <<>>)

ReturnConsumed ==
    /\ sweep' = NoReturn(sweep.n)
    /\ probe' = NoProbe
    /\ UNCHANGED <<mgr, dirState>>

(* The bot's maintenance: on_ready events seen, initial sweeps called,     *)
(* cleanup_task.start() calls, instances of the loop running, iterations   *)
(* of the loop and the exceptions its handler caught.                      *)

NoMaintenance ==
    [readies |-> 0, initial |-> 0, starts |-> 0, running |-> 0,
     iterations |-> 0, caught |-> 0]

(* No message is being handled: the handler is at no point, no loading     *)
(* message was sent, nothing was posted and nothing edited.                *)

NoMessage ==
    [pc |-> "idle", n |-> 0, author |-> "", channel |-> "",
     content |-> [slash |-> FALSE, len |-> 0], attachments |-> <<>>,
     loading |-> "unsent", posts |-> <<>>, result |-> "", edits |-> <<>>]

(* The bridge has handled no request.                                      *)

NoRequest ==
    [n |-> 0, data |-> <<>>, status |-> 0, body |-> "", keys |-> <<>>]

\* a step that is not of the bot's handlers nor of the bridge
Elsewhere == UNCHANGED <<bot, msg, bridge>>

Init ==
    /\ now = 0
    /\ ticks = 0
    /\ files \in InitialDirs
    /\ call = [status |-> "idle", descs |-> <<>>, result |-> <<>>]
    /\ calls = 0
    /\ tasks = <<>>
    /\ settled = <<>>
    /\ sweep = NoReturn(0)
    /\ ioLog = [net |-> 0, dir |-> 0]
    /\ mgr = "ready"
    /\ dirState = "present"
    /\ probe = NoProbe
    /\ bot = NoMaintenance
    /\ msg = NoMessage
    /\ bridge = NoRequest

----------------------------------------------------------------------------
(* The clock, in steps of 30 s or a day.  A fetch in flight is bounded by   *)
(* the ClientTimeout: the clock does not pass its deadline while it is      *)
(* still in flight.  Once the last child is done, gather's callback and    *)
(* the result loop run in the same turn of the event loop, before the      *)
(* clock moves by such a step.                                             *)

Tick(d) ==
    /\ ticks < MaxTicks
    /\ \A i \in Idx : InFlight(i) => now + d - tasks[i].t0 <= DOWNLOAD_TIMEOUT_SECONDS
    /\ call.status = "running" => \E i \in Idx : InFlight(i)
    /\ now' = now + d
    /\ ticks' = ticks + 1
    /\ ReturnConsumed
    /\ UNCHANGED <<files, call, calls, tasks, settled, ioLog>>

----------------------------------------------------------------------------
(* AttachmentDownloader.download_attachment up to its first suspension     *)

\* step 1: validation; a rejection returns None, an exception raised again
\* by the handler's own f-string leaves the coroutine
StepValidate(t, d) ==
    LET v == validate_attachment(d)
    IN  IF v.raised THEN Finish(t, "Failed", "raised", "raised")
        ELSE IF ~v.ok THEN Finish(t, "Rejected", "none", "rejected")
        ELSE Move(t, "Validated")

\* step 2: name generation from the clock and a random suffix
StepName(t, d, clock, x) ==
    [Move(t, "Named") EXCEPT !.name = generate_unique_filename(d, clock, x)]

\* step 3: session.get(url) is issued and the coroutine suspends
StepGet(t, clock) ==
    [Move(t, "Fetching") EXCEPT !.gets = @ + 1, !.t0 = clock]

download_attachment(t, d, clock, x) ==
    LET v == StepValidate(t, d)
    IN  IF v.pc # "Validated" THEN v
        ELSE StepGet(StepName(v, d, clock, x), clock)

----------------------------------------------------------------------------
(* AttachmentManager.process_attachments: the call.  gather schedules the  *)
(* coroutines back to back, so each runs to its first suspension before    *)
(* anything else of the event loop does; sfx[i] is the suffix drawn for i. *)

\* the early return left out
EmptyCheckMissing(descs) == Len(descs) < 0

\* `if not attachments`
IsEmptyBatch(descs) == Len(descs) = 0

RECURSIVE DoneAtStart(_, _)
DoneAtStart(ts, k) ==
    IF k > Len(ts) THEN <<>>
    ELSE (IF ts[k].pc \in Terminal THEN <<k>> ELSE <<>>) \o DoneAtStart(ts, k + 1)

\* a fan-out that holds back what exceeds MAX_CONCURRENT_DOWNLOADS
StartedUpToCap(descs) ==
    {i \in DOMAIN descs : i <= MAX_CONCURRENT_DOWNLOADS}

\* `tasks = [download_attachment(a) for a in attachments]` and
\* gather(*tasks): every coroutine is scheduled at once
Started(descs) == DOMAIN descs

process_attachments(descs, sfx) ==
    /\ mgr = "ready"
    /\ call.status # "running"
    /\ calls < MaxCalls
    /\ calls' = calls + 1
    /\ IF IsEmptyBatch(descs)
       THEN /\ call' = [status |-> "returned", descs |-> descs, result |-> <<>>]
            /\ tasks' = <<>>
            /\ settled' = <<>>
            /\ ioLog' = ioLog
       ELSE LET ts == [i \in 1..Len(descs) |->
                          IF i \in Started(descs)
                          THEN download_attachment(NewTask, descs[i], now, sfx[i])
                          ELSE NewTask]
            IN  /\ call' = [status |-> "running", descs |-> descs, result |-> <<>>]
                /\ tasks' = ts
                /\ settled' = DoneAtStart(ts, 1)
                /\ ioLog' = [ioLog EXCEPT
                               !.net = @ + Cardinality({i \in DOMAIN ts : ts[i].gets > 0})]
    /\ ReturnConsumed
    /\ UNCHANGED <<now, ticks, files>>

----------------------------------------------------------------------------
(* AttachmentDownloader._perform_download after the GET was issued         *)

Settle(i, t) ==
    /\ tasks' = [tasks EXCEPT ![i] = t]
    /\ settled' = IF t.pc \in Terminal THEN Append(settled, i) ELSE settled

\* any response taken as a success
AnyStatusIsSuccess(status) == status >= 200

\* `if response.status == 200`
IsSuccessStatus(status) == status = 200

\* a retry loop: a non-200 response issues the GET again
OnHttpErrorRetry(t, status) ==
    [Move(Move(t, "Failed"), "Fetching") EXCEPT !.gets = @ + 1]

\* the else branch: log and return False, so download_attachment returns None
OnHttpError(t, status) == [Finish(t, "Failed", "none", "http") EXCEPT !.resp = status]

StatusCodes == {200, 404}

\* the handlers re-raising what they caught
ExceptHandlerReraise(t, why) == Finish(t, "Failed", "raised", why)

\* `except asyncio.TimeoutError` and `except Exception` of _perform_download:
\* log and return False, so download_attachment returns None
ExceptHandler(t, why) == Finish(t, "Failed", "none", why)

\* a session without a total timeout
ClientTimeoutNone == [total |-> DOWNLOAD_TIMEOUT_SECONDS, set |-> FALSE]

\* aiohttp.ClientTimeout(total=self.DOWNLOAD_TIMEOUT_SECONDS)
ClientTimeout == [total |-> DOWNLOAD_TIMEOUT_SECONDS, set |-> TRUE]

\* the response head arrives
perform_response(i, status) ==
    /\ call.status = "running"
    /\ tasks[i].pc = "Fetching"
    /\ tasks[i].resp = 0
    /\ IF IsSuccessStatus(status)
       THEN Settle(i, [tasks[i] EXCEPT !.resp = status])
       ELSE Settle(i, OnHttpError(tasks[i], status))
    /\ ReturnConsumed
    /\ UNCHANGED <<now, ticks, files, call, calls, ioLog>>

\* asyncio.TimeoutError from session.get or response.read: the total of the
\* ClientTimeout has passed since the GET was issued (the step lets the rest
\* of it pass when the clock is not there yet)
perform_timeout(i) ==
    /\ call.status = "running"
    /\ tasks[i].pc = "Fetching"
    /\ ClientTimeout.set
    /\ now' = IF now - tasks[i].t0 >= ClientTimeout.total THEN now
              ELSE tasks[i].t0 + ClientTimeout.total
    /\ Settle(i, ExceptHandler(tasks[i], "timeout"))
    /\ ReturnConsumed
    /\ UNCHANGED <<ticks, files, call, calls, ioLog>>

\* any other exception from session.get or response.read
perform_transport_error(i) ==
    /\ call.status = "running"
    /\ tasks[i].pc = "Fetching"
    /\ Settle(i, ExceptHandler(tasks[i], "transport"))
    /\ ReturnConsumed
    /\ UNCHANGED <<now, ticks, files, call, calls, ioLog>>

\* a save that removes the file again when the write or the chmod fails
SavedFilesRemovedOnFailure(fs, n, f, fault) ==
    IF fault # "none" THEN fs
    ELSE [m \in DOMAIN fs \cup {n} |-> IF m = n THEN f ELSE fs[m]]

\* a save that checks first and leaves a file of that name as it is
SavedFilesExclusive(fs, n, f, fault) ==
    IF fault = "open" \/ n \in DOMAIN fs THEN fs
    ELSE [m \in DOMAIN fs \cup {n} |->
            IF m = n
            THEN [f EXCEPT !.st = CASE fault = "write" -> "partial"
                                    [] fault = "chmod" -> "written"
                                    [] OTHER -> "chmod",
                           !.size = IF fault = "write" THEN @ \div 2 ELSE @]
            ELSE fs[m]]

\* open(file_path, 'wb'), f.write(content), os.chmod(file_path, 0o644):
\* the directory after the save, by the point at which it fails (a write
\* that fails has put part of the content in the file)
SavedFiles(fs, n, f, fault) ==
    IF fault = "open" THEN fs
    ELSE [m \in DOMAIN fs \cup {n} |->
            IF m = n
            THEN [f EXCEPT !.st = CASE fault = "write" -> "partial"
                                    [] fault = "chmod" -> "written"
                                    [] OTHER -> "chmod",
                           !.size = IF fault = "write" THEN @ \div 2 ELSE @]
            ELSE fs[m]]

SaveFaults == {"none", "open", "write", "chmod"}

\* the body has been read: save it, then step 4 builds the FileMetadata
perform_save(i, fault) ==
    /\ call.status = "running"
    /\ tasks[i].pc = "Fetching"
    /\ IsSuccessStatus(tasks[i].resp)
    /\ files' = SavedFiles(files, tasks[i].name,
                           File(now, "chmod", <<calls, i>>, call.descs[i],
                                call.descs[i].size), fault)
    /\ ioLog' = [ioLog EXCEPT !.dir = @ + 1]
    /\ IF fault = "none"
       THEN Settle(i, Finish(tasks[i], "Stored", "meta", "stored"))
       ELSE Settle(i, ExceptHandler(tasks[i], fault))
    /\ ReturnConsumed
    /\ UNCHANGED <<now, ticks, call, calls>>

----------------------------------------------------------------------------
(* asyncio.gather with return_exceptions=True, and the result loop        *)

\* gather without return_exceptions: the first exception leaves the call
ReturnExceptionsOff == FALSE

\* return_exceptions=True
ReturnExceptions == TRUE

\* waiting for the first child only
GatherFirstDone(ts) == \E i \in DOMAIN ts : ts[i].pc \in Terminal

\* gather's future is done when every child is done
GatherDone(ts) == \A i \in DOMAIN ts : ts[i].pc \in Terminal

\* results collected in completion order, as asyncio.as_completed gives them
ResultsAsCompleted(ts) ==
    [k \in DOMAIN ts |->
        LET i == IF k <= Len(settled) THEN settled[k] ELSE k
        IN  [kind |-> ts[i].outcome, file_path |-> get_storage_path(ts[i].name)]]

\* gather's result list, in the order the awaitables were passed
GatherResults(ts) ==
    [i \in DOMAIN ts |-> [kind |-> ts[i].outcome, file_path |-> get_storage_path(ts[i].name)]]

\* the `for result in results` loop
RECURSIVE ResultLoop(_, _, _)
ResultLoop(results, k, successful_paths) ==
    IF k > Len(results) THEN successful_paths
    ELSE ResultLoop(results, k + 1,
                    IF results[k].kind = "meta"
                    THEN Append(successful_paths, results[k].file_path)
                    ELSE successful_paths)

Assemble(ts) == ResultLoop(GatherResults(ts), 1, <<>>)

process_return ==
    /\ call.status = "running"
    /\ GatherDone(tasks)
    /\ IF ~ReturnExceptions /\ \E i \in Idx : tasks[i].outcome = "raised"
       THEN call' = [call EXCEPT !.status = "raised"]
       ELSE call' = [call EXCEPT !.status = "returned", !.result = Assemble(tasks)]
    /\ ReturnConsumed
    /\ UNCHANGED <<now, ticks, files, calls, tasks, settled, ioLog>>

----------------------------------------------------------------------------
(* StorageManager.cleanup_old_files                                        *)

\* the ages the callers pass: the default, and the spec's 0 and 365
AgeChoices == {0, DefaultMaxAgeDays, 365}

\* the age left out of the cutoff
CutoffIgnoringAge(t, max_age_days) == t

\* an age below one day taken as one day
CutoffAtLeastADay(t, max_age_days) ==
    t - (IF max_age_days < 1 THEN 1 ELSE max_age_days) * SecondsPerDay

\* datetime.now() - timedelta(days=max_age_days)
CutoffTime(t, max_age_days) == t - max_age_days * SecondsPerDay

\* the comparison with <= in place of <
ExpiredOrEqual(file_mtime, cutoff_time) == file_mtime <= cutoff_time

\* `if file_mtime < cutoff_time`
Expired(file_mtime, cutoff_time) == file_mtime < cutoff_time

RECURSIVE SetToSeq(_)
SetToSeq(S) ==
    IF S = {} THEN <<>>
    ELSE LET n == CHOOSE m \in S : TRUE IN <<n>> \o SetToSeq(S \ {n})

Without(fs, n) == [m \in DOMAIN fs \ {n} |-> fs[m]]

\* the `for file_path in glob` loop over the entries in the order listed.
\* fault[n] is what the environment does to entry n: "oserror" makes stat
\* or unlink raise OSError (logged, the loop continues), "abort" makes the
\* body raise another exception, as datetime.fromtimestamp does for an
\* st_mtime outside the years 1..9999 (the outer handler returns 0).
\* unlink of a directory raises IsADirectoryError, an OSError.
RECURSIVE SweepLoop(_, _, _, _)
SweepLoop(order, fault, cutoff_time, acc) ==
    IF order = <<>> THEN acc
    ELSE LET n == Head(order)
         IN  IF fault[n] = "abort"
             THEN [acc EXCEPT !.ret = 0, !.aborted = TRUE]
             ELSE IF fault[n] = "oserror"
             THEN SweepLoop(Tail(order), fault, cutoff_time,
                            [acc EXCEPT !.errs = @ + 1])
             ELSE IF Expired(acc.fs[n].mtime, cutoff_time)
             THEN IF acc.fs[n].kind = "dir"
                  THEN SweepLoop(Tail(order), fault, cutoff_time,
                                 [acc EXCEPT !.errs = @ + 1])
                  ELSE SweepLoop(Tail(order), fault, cutoff_time,
                                 [acc EXCEPT !.fs = Without(@, n), !.ret = @ + 1])
             ELSE SweepLoop(Tail(order), fault, cutoff_time, acc)

\* Path.exists() on the storage directory.  When stat on it is denied
\* (EACCES) the call raises on the Python versions whose pathlib re-raises
\* the errors it does not ignore, and gives False on the others.
ExistsOutcomes(ds) ==
    CASE ds = "present" -> {"true"}
      [] ds = "absent"  -> {"false"}
      [] OTHER          -> {"raises", "false"}

\* one whole sweep: err is the entry that raises OSError (NoName: none), ab
\* the entry whose handling raises another exception (NoName: none), before
\* the entries the listing yields ahead of ab
cleanup_old_files(max_age_days, err, ab, before) ==
    LET matching == {n \in DOMAIN files : GlobIMG(n)}
        rest     == matching \ (before \cup {ab})
        order    == SetToSeq(before) \o (IF ab = NoName THEN <<>> ELSE <<ab>>)
                                     \o SetToSeq(rest)
        fault    == [n \in matching |-> IF n = ab THEN "abort"
                                        ELSE IF n = err THEN "oserror" ELSE "ok"]
        out      == SweepLoop(order, fault, CutoffTime(now, max_age_days),
                              [fs |-> files, ret |-> 0, errs |-> 0, aborted |-> FALSE])
        done(ret, errs, aborted, raised) ==
            [n |-> sweep.n + 1, live |-> TRUE, days |-> max_age_days, ret |-> ret,
             errs |-> errs, aborted |-> aborted, raised |-> raised]
    IN  /\ mgr = "ready"
        /\ err \in matching \cup {NoName}
        /\ ab \in matching \cup {NoName}
        /\ before \subseteq matching \ {ab}
        /\ ab = NoName => before = {}
        /\ \E ex \in ExistsOutcomes(dirState) :
              \* `if not self.attachments_dir.exists()` stands outside the try
              IF ex = "raises"
              THEN /\ sweep' = done(0, 0, FALSE, TRUE)
                   /\ UNCHANGED <<files, ioLog>>
              ELSE IF ex = "false"
              THEN /\ sweep' = done(0, 0, FALSE, FALSE)
                   /\ UNCHANGED <<files, ioLog>>
              ELSE /\ files' = out.fs
                   /\ sweep' = done(out.ret, out.errs, out.aborted, FALSE)
                   /\ ioLog' = [ioLog EXCEPT !.dir = @ + 1]
        /\ probe' = NoProbe
        /\ UNCHANGED <<now, ticks, call, calls, tasks, settled, mgr, dirState>>

----------------------------------------------------------------------------
(* StorageManager.get_storage_info                                         *)

\* Path.is_file()
is_file(f) == f.kind = "file"

RECURSIVE SumSizes(_, _)
SumSizes(fs, S) ==
    IF S = {} THEN 0
    ELSE LET n == CHOOSE m \in S : TRUE IN fs[n].size + SumSizes(fs, S \ {n})

Zeroed(error) == [total_files |-> 0, total_size |-> 0, error |-> error]

\* the dictionary returned: ex is what exists() gave, fault "error" an
\* exception from the listing or from stat
StorageInfo(fs, ex, fault) ==
    IF ex = "raises" THEN Zeroed(TRUE)
    ELSE IF ex = "false" THEN Zeroed(FALSE)
    ELSE IF fault = "error" THEN Zeroed(TRUE)
    ELSE LET listed == {n \in DOMAIN fs : GlobIMG(n)}
         IN  [total_files |-> Cardinality(listed),
              total_size  |-> SumSizes(fs, {n \in listed : is_file(fs[n])}),
              error       |-> FALSE]

InfoFaults == {"none", "error"}

\* a call between two batches
get_storage_info(fault) ==
    /\ mgr = "ready"
    /\ call.status # "running"
    /\ probe.op # "info"
    /\ \E ex \in ExistsOutcomes(dirState) :
          probe' = Probe("info", <<>>, FALSE, StorageInfo(files, ex, fault))
    /\ sweep' = NoReturn(sweep.n)
    /\ UNCHANGED <<now, ticks, files, call, calls, tasks, settled, ioLog, mgr, dirState>>

----------------------------------------------------------------------------
ClockSteps == {DOWNLOAD_TIMEOUT_SECONDS, SecondsPerDay}

\* a sweep called on the manager, AttachmentManager.cleanup_old_files
Sweep(max_age_days, err, ab, before) ==
    /\ sweep.n < MaxSweeps
    /\ cleanup_old_files(max_age_days, err, ab, before)
    /\ Elsewhere

Matching == {n \in DOMAIN files : GlobIMG(n)}

Next ==
    \/ \E d \in ClockSteps : Tick(d) /\ Elsewhere
    \/ \E descs \in Batches :
         \E sfx \in [DOMAIN descs -> 0..(NumSuffix - 1)] :
            process_attachments(descs, sfx) /\ Elsewhere
    \/ \E i \in Idx, status \in StatusCodes : perform_response(i, status) /\ Elsewhere
    \/ \E i \in Idx : perform_timeout(i) /\ Elsewhere
    \/ \E i \in Idx : perform_transport_error(i) /\ Elsewhere
    \/ \E i \in Idx, fault \in SaveFaults : perform_save(i, fault) /\ Elsewhere
    \/ process_return /\ Elsewhere
    \/ \E fault \in InfoFaults : get_storage_info(fault) /\ Elsewhere
    \* a sweep in which at most one entry raises
    \/ \E days \in AgeChoices :
         \/ \E err \in Matching \cup {NoName} : Sweep(days, err, NoName, {})
         \/ \E ab \in Matching : \E before \in SUBSET (Matching \ {ab}) :
              Sweep(days, NoName, ab, before)

Spec == Init /\ [][Next]_vars

(* The program as its callers run it: discord_bot.py calls                 *)
(* cleanup_old_files() with no argument, so every sweep has the default    *)
(* age of one day; 365 stands for a longer age set by a caller.            *)

RetainedAges == {days \in AgeChoices : days >= 1}

NextRetained ==
    \/ \E d \in ClockSteps : Tick(d) /\ Elsewhere
    \/ \E descs \in Batches :
         \E sfx \in [DOMAIN descs -> 0..(NumSuffix - 1)] :
            process_attachments(descs, sfx) /\ Elsewhere
    \/ \E i \in Idx, status \in StatusCodes : perform_response(i, status) /\ Elsewhere
    \/ \E i \in Idx : perform_timeout(i) /\ Elsewhere
    \/ \E i \in Idx : perform_transport_error(i) /\ Elsewhere
    \/ \E i \in Idx, fault \in SaveFaults : perform_save(i, fault) /\ Elsewhere
    \/ process_return /\ Elsewhere
    \/ \E fault \in InfoFaults : get_storage_info(fault) /\ Elsewhere
    \/ \E days \in RetainedAges :
         \/ \E err \in Matching \cup {NoName} : Sweep(days, err, NoName, {})
         \/ \E ab \in Matching : \E before \in SUBSET (Matching \ {ab}) :
              Sweep(days, NoName, ab, before)

SpecRetained == Init /\ [][NextRetained]_vars

(* The event loop runs what is ready: the timer of a ClientTimeout fires   *)
(* when its total has passed, and the coroutine awaiting gather resumes    *)
(* when gather's future is done.  Nothing obliges a server to answer.      *)

FairSpec ==
    /\ Spec
    /\ \A i \in 1..MaxBatch : WF_vars(i \in Idx /\ perform_timeout(i) /\ Elsewhere)
    /\ WF_vars(process_return /\ Elsewhere)

(* The fan-out on its own: batches of up to MaxFanOut descriptors, of which *)
(* at most one is refused, and no server ever answering, so that every     *)
(* fetch is ended by its timeout.                                          *)

WideBatches ==
    { b \in UNION { [1..k -> {GoodJPG, BadExe}] : k \in 0..MaxFanOut } :
        Cardinality({i \in DOMAIN b : b[i] = BadExe}) <= 1 }

NextFanOut ==
    \/ \E descs \in WideBatches :
         process_attachments(descs, [i \in DOMAIN descs |-> i % NumSuffix]) /\ Elsewhere
    \/ \E i \in Idx : perform_timeout(i) /\ Elsewhere
    \/ process_return /\ Elsewhere

SpecFanOut == Init /\ [][NextFanOut]_vars

----------------------------------------------------------------------------
(* The storage manager and the helpers on their own: construction, the     *)
(* usage report and the sweep on directories that may be absent or out of  *)
(* reach, the validator and the naming strategy on filenames and sizes.    *)

\* mkdir without exist_ok
mkdir_exclusive(ds) ==
    IF ds = "absent" THEN [raised |-> FALSE, ds |-> "present"]
    ELSE [raised |-> TRUE, ds |-> ds]

\* attachments_dir.mkdir(parents=True, exist_ok=True); the handler logs the
\* exception and raises it again
ensure_storage_directory(ds) ==
    CASE ds = "present" -> [raised |-> FALSE, ds |-> "present"]
      [] ds = "absent"  -> [raised |-> FALSE, ds |-> "present"]
      [] OTHER          -> [raised |-> TRUE, ds |-> ds]

EmptyDir == [n \in {} |-> File(0, "chmod", Outsider, NoDesc, 0)]

\* AttachmentManager(): StorageManager.__init__ ensures the directory, and
\* an exception leaves the constructors, so that no new instance is bound
Construct ==
    LET e == ensure_storage_directory(dirState)
    IN  /\ call.status # "running"
        /\ dirState' = e.ds
        /\ files' = IF dirState = "absent" /\ ~e.raised THEN EmptyDir ELSE files
        /\ mgr' = IF e.raised THEN mgr ELSE "ready"
        /\ probe' = Probe("construct", <<>>, e.raised, <<>>)
        /\ sweep' = NoReturn(sweep.n)
        /\ UNCHANGED <<now, ticks, call, calls, tasks, settled, ioLog>>

DirStates == {"present", "absent", "denied"}

\* someone else removes the directory, creates it, or closes or opens the
\* way to it
SetDir(ds) ==
    /\ ds # dirState
    /\ dirState' = ds
    /\ files' = IF ds = "absent" \/ dirState = "absent" THEN EmptyDir ELSE files
    /\ probe' = NoProbe
    /\ sweep' = NoReturn(sweep.n)
    /\ UNCHANGED <<now, ticks, call, calls, tasks, settled, ioLog, mgr>>

UnitNames == { <<"a", "png">>, <<"B", "JPG">>, <<"h", "Jpeg">>, <<"c", "exe">>,
               <<"g", "tar", "GZ">>, <<"e">>, <<"", "bashrc">>, <<"f", "">> }

UnitSizes == {0, 100, MAX_FILE_SIZE, MAX_FILE_SIZE + 1}

UnitSuffixes == {0, 1, 43981, 16777215}

\* FileValidator.validate_attachment called on its own
Validate(parts, size) ==
    LET v == validate_attachment(Attachment(parts, size))
    IN  /\ probe' = Probe("validate", [filename |-> parts, size |-> size], v.raised, v)
        /\ sweep' = NoReturn(sweep.n)
        /\ UNCHANGED <<now, ticks, files, call, calls, tasks, settled, ioLog, mgr, dirState>>

\* FileNamingStrategy.generate_unique_filename called on its own
GenerateName(parts, x) ==
    LET n == generate_unique_filename(Attachment(parts, 0), now, x)
    IN  /\ probe' = Probe("name", [filename |-> parts, size |-> 0], FALSE,
                          [name |-> n, text |-> NameText(n)])
        /\ sweep' = NoReturn(sweep.n)
        /\ UNCHANGED <<now, ticks, files, call, calls, tasks, settled, ioLog, mgr, dirState>>

\* entries a storage directory can hold: two stored files, a directory named
\* IMG_cache and a file of another name
StoredA  == Name("IMG_", "gen", 0 - 2 * SecondsPerDay, 1, ".png")
StoredB  == Name("IMG_", "gen", 0 - 2 * SecondsPerDay, 2, ".jpg")
IMGCache == Name("IMG_", "other", 0, 0, "")

UnitDirs ==
    LET a == File(0 - 2 * SecondsPerDay, "chmod", Outsider, NoDesc, 100)
        b == File(0 - 2 * SecondsPerDay, "chmod", Outsider, NoDesc, 200)
        c == [File(0 - 2 * SecondsPerDay, "chmod", Outsider, NoDesc, 4096)
                EXCEPT !.kind = "dir"]
    IN  { EmptyDir,
          [n \in {StoredA, StoredB} |-> IF n = StoredA THEN a ELSE b],
          [n \in {StoredA, IMGCache, NotesTxt} |->
              IF n = IMGCache THEN c ELSE IF n = StoredA THEN a ELSE b] }

InitUnits ==
    /\ now = 0
    /\ ticks = 0
    /\ dirState \in DirStates
    /\ files \in IF dirState = "absent" THEN {EmptyDir} ELSE UnitDirs
    /\ call = [status |-> "idle", descs |-> <<>>, result |-> <<>>]
    /\ calls = 0
    /\ tasks = <<>>
    /\ settled = <<>>
    /\ sweep = NoReturn(0)
    /\ ioLog = [net |-> 0, dir |-> 0]
    /\ mgr = "none"
    /\ probe = NoProbe
    /\ bot = NoMaintenance
    /\ msg = NoMessage
    /\ bridge = NoRequest

NextUnits ==
    \/ \E d \in ClockSteps : Tick(d) /\ Elsewhere
    \/ Construct /\ Elsewhere
    \/ \E ds \in DirStates : SetDir(ds) /\ Elsewhere
    \/ \E parts \in UnitNames, size \in UnitSizes : Validate(parts, size) /\ Elsewhere
    \/ \E parts \in UnitNames, x \in UnitSuffixes : GenerateName(parts, x) /\ Elsewhere
    \/ \E fault \in InfoFaults : get_storage_info(fault) /\ Elsewhere
    \/ \E days \in AgeChoices :
         \/ \E err \in Matching \cup {NoName} : Sweep(days, err, NoName, {})
         \/ \E ab \in Matching : \E before \in SUBSET (Matching \ {ab}) :
              Sweep(days, NoName, ab, before)

SpecUnits == InitUnits /\ [][NextUnits]_vars

----------------------------------------------------------------------------
(* ClaudeCLIBot: on_ready and the periodic cleanup_task.  Neither has an   *)
(* await between its first and its last statement that lets another        *)
(* handler in, so each is one step.  Both call cleanup_old_files() with no *)
(* argument.                                                               *)

\* a check that never finds the loop running
is_running_never(b) == FALSE

\* self.cleanup_task.is_running()
is_running(b) == b.running > 0

\* _start_maintenance_tasks: start the loop unless it is running
start_maintenance_tasks(b) ==
    IF ~is_running(b)
    THEN [b EXCEPT !.starts = @ + 1, !.running = @ + 1]
    ELSE b

\* on_ready: the initial sweep, outside any try, and then the start of the
\* loop; an exception of the sweep leaves on_ready before the loop is started
on_ready(err, ab, before) ==
    /\ bot.readies < MaxReady
    /\ cleanup_old_files(DefaultMaxAgeDays, err, ab, before)
    /\ bot' = LET b == [bot EXCEPT !.readies = @ + 1, !.initial = @ + 1]
              IN  IF sweep'.raised THEN b ELSE start_maintenance_tasks(b)
    /\ UNCHANGED <<msg, bridge>>

\* one iteration of the loop: the sweep inside try, `except Exception` logs,
\* and the loop goes on to its next iteration
cleanup_task(err, ab, before) ==
    /\ is_running(bot)
    /\ bot.iterations < MaxIterations
    /\ cleanup_old_files(DefaultMaxAgeDays, err, ab, before)
    /\ bot' = [bot EXCEPT !.iterations = @ + 1,
                          !.caught = IF sweep'.raised THEN @ + 1 ELSE @]
    /\ UNCHANGED <<msg, bridge>>

NextReady ==
    \/ \E err \in Matching \cup {NoName} : on_ready(err, NoName, {})
    \/ \E ab \in Matching : \E before \in SUBSET (Matching \ {ab}) :
         on_ready(NoName, ab, before)
    \/ \E err \in Matching \cup {NoName} : cleanup_task(err, NoName, {})
    \/ \E ab \in Matching : \E before \in SUBSET (Matching \ {ab}) :
         cleanup_task(NoName, ab, before)
    \/ \E ds \in DirStates : SetDir(ds) /\ Elsewhere

SpecReady == Init /\ [][NextReady]_vars

----------------------------------------------------------------------------
(* The bridge, flask_app.py.  A request body is what request.json gives:   *)
(* kind "none" for None or an empty object or array, "dict" for an object, *)
(* "array" for any other JSON array; has is the set of the required names *)
(* that are keys of the object (or elements of the array); mtype and mlen  *)
(* are the type of the value of 'message' and its len().                   *)

Body(kind, has, mtype, mlen) == [kind |-> kind, has |-> has, mtype |-> mtype, mlen |-> mlen]

required_fields == <<"message", "session", "channel_id">>

\* MessageValidator.validate_discord_message: (is_valid, error_msg).  An
\* array has no get, and None and a number have no len(): the call raises.
validate_discord_message(data) ==
    IF data.kind = "none"
    THEN [raised |-> FALSE, ok |-> FALSE, msg |-> "No data provided"]
    ELSE IF \E k \in 1..3 : required_fields[k] \notin data.has
    THEN [raised |-> FALSE, ok |-> FALSE, msg |-> "Missing required field"]
    ELSE IF data.kind = "array" \/ data.mtype \in {"null", "int"}
    THEN [raised |-> TRUE, ok |-> FALSE, msg |-> "raised"]
    ELSE IF data.mlen > 4000
    THEN [raised |-> FALSE, ok |-> FALSE, msg |-> "Message too long"]
    ELSE [raised |-> FALSE, ok |-> TRUE, msg |-> "None"]

\* _log_message_info builds message[:100] + "..." for a message of more than
\* 100 items, which raises TypeError when the message is a list
log_message_info_raises(data) == data.mtype = "list" /\ data.mlen > 100

\* what tmux does with one send-keys call
TmuxOutcomes == {"ok", "failed", "error"}

\* _send_tmux_keys: subprocess.run(..., check=True) raises CalledProcessError
\* when tmux exits non-zero ("failed"), another exception when it cannot be
\* run ("error"), and TypeError for keys that are not a string
send_tmux_keys(keys, mtype, tmux) ==
    [keys |-> keys, out |-> IF mtype # "str" THEN "error" ELSE tmux]

\* TmuxMessageForwarder.forward_message: the message keys, then Enter; both
\* handlers return (False, error_msg)
forward_message(data, t1, t2) ==
    LET first  == send_tmux_keys("message", data.mtype, t1)
        second == send_tmux_keys("C-m", "str", t2)
        failure(out) == IF out = "failed" THEN "tmux command failed"
                        ELSE "Unexpected error"
    IN  IF first.out # "ok"
        THEN [raised |-> FALSE, success |-> FALSE, error |-> failure(first.out),
              sent |-> <<first>>]
        ELSE IF second.out # "ok"
        THEN [raised |-> FALSE, success |-> FALSE, error |-> failure(second.out),
              sent |-> <<first, second>>]
        ELSE [raised |-> FALSE, success |-> TRUE, error |-> "None",
              sent |-> <<first, second>>]

\* FlaskBridgeApp.handle_discord_message: the status answered, the text of
\* the answer and the send-keys calls made.  `except Exception` answers 500
\* for whatever was raised before the forward.
handle_discord_message(data, t1, t2) ==
    LET v == validate_discord_message(data)
        f == forward_message(data, t1, t2)
        answer(status, body, sent) ==
            [n |-> 1, data |-> data, status |-> status, body |-> body, keys |-> sent]
    IN  IF v.raised THEN answer(500, "Internal server error", <<>>)
        ELSE IF ~v.ok THEN answer(400, v.msg, <<>>)
        ELSE IF log_message_info_raises(data)
        THEN answer(500, "Internal server error", <<>>)
        ELSE IF ~f.success THEN answer(500, f.error, f.sent)
        ELSE answer(200, "received", f.sent)

\* the bodies posted to /discord-message by any client
Requests ==
    LET all == {"message", "session", "channel_id"}
    IN  { Body("none", {}, "null", 0) }
        \cup { Body("dict", has, "str", 2) : has \in SUBSET all }
        \cup { Body("dict", all, "str", n) : n \in {0, 101, 4000, 4001} }
        \cup { Body("dict", all, "list", n) : n \in {1, 101, 4001} }
        \cup { Body("dict", all, t, 0) : t \in {"null", "int"} }
        \cup { Body("array", has, "null", 0) : has \in {{}, all} }

\* one request from a client other than the bot.  The bridge keeps nothing
\* from one request to the next, so such requests are followed only while
\* the bot has no message at hand.
PostRequest(data, t1, t2) ==
    /\ msg.pc = "idle"
    /\ bridge.n = 0
    /\ bridge' = handle_discord_message(data, t1, t2)
    /\ UNCHANGED <<now, ticks, files, call, calls, tasks, settled, sweep, ioLog,
                   mgr, dirState, probe, bot, msg>>

\* the answer has reached its client
Answered == bridge' = NoRequest

----------------------------------------------------------------------------
(* ClaudeCLIBot.on_message.  The handler suspends at channel.send, inside  *)
(* process_attachments at gather, and at loading_msg.edit; requests.post   *)
(* is a blocking call, so the bridge handles the request within the step   *)
(* that posts it.  msg is the message being handled: the point reached,    *)
(* what became of the loading message, the payloads posted, result_text    *)
(* and the edits made.  One message is handled at a time.                  *)

Message(author, channel, content, attachments) ==
    [author |-> author, channel |-> channel, content |-> content,
     attachments |-> attachments]

\* the contents: a notice, a slash command, and a text of 4000 characters
Contents == { [slash |-> FALSE, len |-> 1], [slash |-> TRUE, len |-> 1],
              [slash |-> FALSE, len |-> 4000] }

Messages ==
    { Message(a, c, t, b) : a \in {"user", "bot"}, c \in {"mapped", "unmapped"},
                            t \in Contents, b \in Batches }

\* settings.channel_to_session: the session of a configured channel, or
\* None (the empty sequence)
channel_to_session(channel) == IF channel = "mapped" THEN <<1>> ELSE <<>>

\* MessageProcessor.format_message_with_attachments.  len counts what the
\* format adds to the content: the notice prefix (14 characters) unless the
\* content is a slash command, 14 characters around each path, and
\* " session=N" (10); the characters of the paths themselves are left out,
\* which with contents of 1 and of 4000 characters does not change on which
\* side of the bridge's limit the message falls.
format_message_with_attachments(content, attachment_paths, session_num) ==
    [slash |-> content.slash, paths |-> attachment_paths, session |-> session_num,
     len |-> content.len + (IF content.slash THEN 0 ELSE 14)
               + 14 * Len(attachment_paths) + 10]

\* _format_response_status
format_response_status(status_code) ==
    IF status_code = 200 THEN "SUCCESS_MESSAGE" ELSE "status"

\* what becomes of the POST: the bridge answers, nothing listens on the
\* port (ConnectionError), or the answer does not come within 5 s (the
\* bridge has handled the request all the same)
NetOutcomes == {"up", "down", "timeout"}

\* _forward_to_claude: the payload posted, the text returned and the request
\* as the bridge handled it
forward_to_claude(formatted_message, net, t1, t2) ==
    LET payload == Body("dict", {"message", "session", "channel_id"}, "str",
                        formatted_message.len)
        handled == handle_discord_message(payload, t1, t2)
    IN  CASE net = "down" ->
               [posted |-> formatted_message, text |-> "cannot connect",
                bridge |-> NoRequest]
          [] net = "timeout" ->
               [posted |-> formatted_message, text |-> "error", bridge |-> handled]
          [] OTHER ->
               [posted |-> formatted_message,
                text |-> format_response_status(handled.status), bridge |-> handled]

\* steps 2 and 3 of _process_message_pipeline, up to the await of the edit
Forward(m, attachment_paths, net, t1, t2) ==
    LET session == channel_to_session(m.channel)[1]
        f == forward_to_claude(
                 format_message_with_attachments(m.content, attachment_paths, session),
                 net, t1, t2)
    IN  /\ msg' = [m EXCEPT !.pc = "editing",
                            !.posts = Append(@, f.posted), !.result = f.text]
        /\ bridge' = f.bridge

\* a handler that goes on without its loading message
loading_ignored(outcome) == TRUE

\* `if not loading_msg: return`
loading_sent(outcome) == outcome = "sent"

\* on_message up to `await channel.send`: the bot's own messages and those of
\* channels without a session are dropped
on_message(m) ==
    /\ msg.pc \in {"idle", "done"}
    /\ msg.n < MaxMessages
    /\ call.status # "running"
    /\ m.attachments # <<>> => calls < MaxCalls
    /\ msg' = [NoMessage EXCEPT
                 !.pc = IF m.author = "bot" \/ channel_to_session(m.channel) = <<>>
                        THEN "done" ELSE "loading",
                 !.n = msg.n + 1, !.author = m.author, !.channel = m.channel,
                 !.content = m.content, !.attachments = m.attachments]
    /\ Answered
    /\ UNCHANGED <<now, ticks, files, call, calls, tasks, settled, sweep, ioLog,
                   mgr, dirState, probe, bot>>

\* channel.send has ended: with no loading message the handler returns; with
\* attachments the batch is started and the handler waits in gather; without
\* them the message is formatted and posted at once
on_message_feedback(outcome, sfx, net, t1, t2) ==
    /\ msg.pc = "loading"
    /\ IF ~loading_sent(outcome)
       THEN /\ msg' = [msg EXCEPT !.pc = "done", !.loading = "failed"]
            /\ Answered
            /\ UNCHANGED <<now, ticks, files, call, calls, tasks, settled, sweep,
                           ioLog, mgr, dirState, probe, bot>>
       ELSE IF msg.attachments # <<>>
       THEN /\ sfx \in [DOMAIN msg.attachments -> 0..(NumSuffix - 1)]
            /\ process_attachments(msg.attachments, sfx)
            /\ msg' = [msg EXCEPT !.pc = "gathering", !.loading = outcome]
            /\ Answered
            /\ UNCHANGED bot
       ELSE /\ Forward([msg EXCEPT !.loading = outcome], <<>>, net, t1, t2)
            /\ UNCHANGED <<now, ticks, files, call, calls, tasks, settled, sweep,
                           ioLog, mgr, dirState, probe, bot>>

\* gather is done: process_attachments returns its paths (an exception of it
\* is caught and leaves the list empty), and the message is formatted and
\* posted
on_message_pipeline(net, t1, t2) ==
    /\ msg.pc = "gathering"
    /\ process_return
    /\ Forward(msg, IF call'.status = "returned" THEN call'.result ELSE <<>>,
               net, t1, t2)
    /\ UNCHANGED bot

EditOutcomes == {"ok", "failed"}

\* _update_feedback: loading_msg.edit(content=result_text); an exception of
\* the edit is logged
update_feedback(outcome) ==
    /\ msg.pc = "editing"
    /\ msg' = [msg EXCEPT !.pc = "done",
                          !.edits = Append(@, [text |-> msg.result, ok |-> outcome = "ok"])]
    /\ Answered
    /\ UNCHANGED <<now, ticks, files, call, calls, tasks, settled, sweep, ioLog,
                   mgr, dirState, probe, bot>>

\* a step of the batch while the handler waits in gather
InBatch == Answered /\ UNCHANGED <<bot, msg>>

Suffixes == UNION { [1..k -> 0..(NumSuffix - 1)] : k \in 0..MaxBatch }

NextBridge ==
    \/ \E m \in Messages : on_message(m)
    \/ \E outcome \in {"sent", "failed"}, sfx \in Suffixes, net \in NetOutcomes,
          t1 \in TmuxOutcomes, t2 \in TmuxOutcomes :
         on_message_feedback(outcome, sfx, net, t1, t2)
    \/ \E i \in Idx, status \in StatusCodes : perform_response(i, status) /\ InBatch
    \/ \E i \in Idx : perform_timeout(i) /\ InBatch
    \/ \E i \in Idx : perform_transport_error(i) /\ InBatch
    \/ \E i \in Idx, fault \in SaveFaults : perform_save(i, fault) /\ InBatch
    \/ \E net \in NetOutcomes, t1 \in TmuxOutcomes, t2 \in TmuxOutcomes :
         on_message_pipeline(net, t1, t2)
    \/ \E outcome \in EditOutcomes : update_feedback(outcome)
    \/ \E data \in Requests, t1 \in TmuxOutcomes, t2 \in TmuxOutcomes :
         PostRequest(data, t1, t2)

SpecBridge == Init /\ [][NextBridge]_vars

----------------------------------------------------------------------------
(* Properties *)

Me(i) == <<calls, i>>

WrittenBy(i) == {n \in DOMAIN files : files[n].by = Me(i)}

Succeeded == {i \in Idx : tasks[i].outcome = "meta"}

\* the k-th smallest index among the successes
KthSuccess(k) == CHOOSE i \in Succeeded : Cardinality({j \in Succeeded : j <= i}) = k

\* C1: whatever order the downloads complete in, the value process_attachments
\* returns is the absolute paths of the descriptors whose download gave
\* FileMetadata, in submission order; a None or a raised exception adds nothing.
C1_SubmissionOrder ==
    call.status = "returned" =>
        /\ Len(call.result) = Cardinality(Succeeded)
        /\ \A k \in 1..Len(call.result) :
              call.result[k] = [dir |-> "attachments", name |-> tasks[KthSuccess(k)].name]

\* two successes with different names, the second completing first
C1_Witness ==
    /\ call.status = "returned"
    /\ Len(call.result) = 2
    /\ call.result[1] # call.result[2]
    /\ settled = <<2, 1>>

\* C2: a failing task leaves every sibling as it was, and no failure of an item
\* makes process_attachments itself fail.
C2_FailuresContained ==
    /\ [](call.status # "raised")
    /\ [][\A i \in Idx, j \in Idx :
            ( /\ calls' = calls
              /\ i # j
              /\ tasks[i].pc \notin Terminal
              /\ tasks'[i].pc \in {"Rejected", "Failed"} )
            => tasks'[j] = tasks[j]]_vars

\* an item whose coroutine raised, beside a sibling that was stored and returned
C2_Witness ==
    /\ call.status = "returned"
    /\ \E i \in Idx, j \in Idx :
          /\ tasks[i].outcome = "raised"
          /\ tasks[j].pc = "Stored"
          /\ call.result = <<[dir |-> "attachments", name |-> tasks[j].name]>>

\* C3: the result is returned only when every task of the batch has reached a
\* terminal outcome; none is still fetching.
C3_SettleAll ==
    call.status = "returned" =>
        /\ Len(tasks) = Len(call.descs)
        /\ \A i \in Idx : tasks[i].pc \in Terminal /\ tasks[i].outcome # "pending"

\* both tasks fetched, one failed early and the other was stored after it
C3_Witness ==
    /\ call.status = "returned"
    /\ Len(tasks) = 2
    /\ \A i \in Idx : tasks[i].gets = 1
    /\ tasks[settled[1]].why = "http"
    /\ tasks[settled[2]].pc = "Stored"

\* C4: a call with an empty sequence returns [] in that step with no task, no
\* fetch and no access to the storage directory.
C4_EmptyBatch ==
    [][(calls' = calls + 1 /\ call'.descs = <<>>) =>
          /\ call'.status = "returned"
          /\ call'.result = <<>>
          /\ tasks' = <<>>
          /\ ioLog' = ioLog
          /\ files' = files]_vars

C4_Witness ==
    /\ calls = 1
    /\ call = [status |-> "returned", descs |-> <<>>, result |-> <<>>]
    /\ ioLog = [net |-> 0, dir |-> 0]
    /\ NotesTxt \in DOMAIN files

\* the policy, stated on the descriptor alone
PassesPolicy(d) ==
    /\ d.hasName
    /\ d.ext \in {".png", ".jpg", ".jpeg", ".gif", ".webp", ".bmp", ".tiff",
                  ".PNG", ".JPG"}
    /\ d.size <= 8 * 1024 * 1024

\* C5: every file a download has written belongs to a descriptor with an
\* allow-listed extension and a size of at most 8 MiB; a descriptor that fails
\* validation gets no name, no fetch and no file.
C5_OnlyValidatedPersisted ==
    /\ \A n \in DOMAIN files : files[n].by # Outsider => PassesPolicy(files[n].desc)
    /\ \A i \in Idx :
          ~PassesPolicy(call.descs[i]) =>
              /\ tasks[i].name = NoName
              /\ tasks[i].gets = 0
              /\ WrittenBy(i) = {}

\* a file of exactly 8 MiB stored beside a rejected oversize sibling
C5_Witness ==
    /\ \E n \in DOMAIN files : files[n].desc = GoodJPG /\ files[n].st = "chmod"
    /\ \E i \in Idx : call.descs[i] = TooBig /\ tasks[i].pc = "Rejected"

\* C6: a download creates at most one file, and only when it returns
\* FileMetadata; no step of a download changes or removes a file that was in
\* the directory before the call.
C6_OneFileOnlyOnSuccess ==
    /\ [](\A i \in Idx :
            /\ Cardinality(WrittenBy(i)) <= 1
            /\ WrittenBy(i) # {} => tasks[i].outcome = "meta")
    /\ [][(calls' = calls /\ tasks' # tasks) =>
            \A n \in DOMAIN files :
                files[n].by[1] # calls => n \in DOMAIN files' /\ files'[n] = files[n]]_vars

\* the exits C7 names
SoftFailure(t) ==
    \/ t.why \in {"rejected", "http", "timeout", "transport"}
    \/ t.resp \notin {0, 200}

\* C7: a download that ends in a validation failure, a non-200 response, a
\* timeout or a transport error returns None and has put no file in the
\* storage directory.
C7_NoArtifactOnFetchFailure ==
    \A i \in Idx :
        SoftFailure(tasks[i]) => tasks[i].outcome = "none" /\ WrittenBy(i) = {}

\* a timed-out download whose generated name is not in the directory
C7_Witness ==
    \E i \in Idx, j \in Idx :
        /\ tasks[i].why = "timeout"
        /\ tasks[i].name \notin DOMAIN files
        /\ tasks[j].why = "http"
        /\ tasks[j].resp = 404

\* the order of the states of the machine
Rank(st) ==
    CASE st = "Received" -> 0
      [] st = "Validated" -> 1
      [] st = "Named" -> 2
      [] st = "Fetching" -> 3
      [] OTHER -> 4

\* C8: every attachment moves forward through Received, Validated, Named,
\* Fetching to one of Stored, Rejected, Failed; these three are left by no
\* transition (so Failed never leads back to Fetching), Fetching is entered only
\* from Named and Stored only from Fetching, and at most one GET is issued.
C8_StateMachine ==
    \A i \in Idx :
        LET tr == tasks[i].trail
        IN  /\ tr[1] = "Received"
            /\ tr[Len(tr)] = tasks[i].pc
            /\ \A k \in 1..(Len(tr) - 1) :
                  /\ tr[k] \notin Terminal
                  /\ Rank(tr[k]) < Rank(tr[k + 1])
                  /\ tr[k + 1] \in {"Validated", "Named", "Fetching"} =>
                        Rank(tr[k + 1]) = Rank(tr[k]) + 1
                  /\ tr[k + 1] = "Stored" => tr[k] = "Fetching"
            /\ tasks[i].gets <= 1
            /\ tasks[i].gets = 1 <=> (\E k \in 1..Len(tr) : tr[k] = "Fetching")

\* one attachment went the whole way to Stored, one failed after its GET
C8_Witness ==
    \E i \in Idx, j \in Idx :
        /\ tasks[i].trail = <<"Received", "Validated", "Named", "Fetching", "Stored">>
        /\ tasks[j].trail = <<"Received", "Validated", "Named", "Fetching", "Failed">>
        /\ tasks[j].why = "http"
        /\ tasks[j].gets = 1

SweepStep == sweep'.n = sweep.n + 1

Removed == DOMAIN files \ DOMAIN files'

KeptAsIs == \A n \in DOMAIN files' : n \in DOMAIN files /\ files'[n] = files[n]

\* the entries named IMG_* that are older than the cutoff of the sweep taken
OldEntries ==
    {n \in DOMAIN files : n.prefix = "IMG_" /\ files[n].mtime < now - sweep'.days * 86400}

\* C9: a sweep in which no stat and no unlink fails removes exactly the
\* entries named IMG_* whose modification time is strictly before
\* now - max_age_days, leaves every other file as it was, and returns the
\* number of files it removed.
C9_ExactAndCounted ==
    [][(SweepStep /\ sweep'.errs = 0) =>
          /\ Removed = OldEntries
          /\ KeptAsIs
          /\ sweep'.ret = Cardinality(Removed)]_vars

\* The part of C9 that holds: a sweep removes only entries named IMG_* whose
\* modification time is strictly before now - max_age_days and leaves every
\* other file as it was; when no entry raises it removes all of them, and
\* when the loop is not cut short it returns the number removed.
C9_StrictCutoff ==
    [][SweepStep =>
          LET cutoff == now - sweep'.days * 86400
              old    == {n \in DOMAIN files :
                            n.prefix = "IMG_" /\ files[n].mtime < cutoff}
          IN  /\ Removed \subseteq old
              /\ KeptAsIs
              /\ (~sweep'.aborted /\ sweep'.errs = 0) => Removed = old
              /\ ~sweep'.aborted => sweep'.ret = Cardinality(Removed)]_vars

\* the default age at time 0: the two-day-old file went, the file exactly one
\* day old stayed, and 1 was returned
C9_Witness ==
    /\ sweep.live /\ sweep.days = 1 /\ sweep.ret = 1
    /\ sweep.errs = 0 /\ ~sweep.aborted
    /\ now = 0
    /\ IMGHoliday \notin DOMAIN files
    /\ OldImage \in DOMAIN files
    /\ files[OldImage].mtime = now - 86400

\* C10 as stated: a sweep touches no file whose name is not of the form
\* IMG_<YYYYMMDD_HHMMSS>_<6-hex>.<ext>.
C10_OnlyPatternFiles ==
    [][SweepStep =>
          \A n \in DOMAIN files :
              ~MatchesPattern(n) => n \in DOMAIN files' /\ files'[n] = files[n]]_vars

\* C10: a sweep touches no file whose name does not begin with IMG_, whatever
\* its age.
C10_OnlyPrefixedFiles ==
    [][SweepStep =>
          \A n \in DOMAIN files :
              n.prefix # "IMG_" => n \in DOMAIN files' /\ files'[n] = files[n]]_vars

\* a sweep removed an IMG_ file that is not of the generated form and kept the
\* equally old notes.txt
C10_Witness ==
    /\ sweep.live /\ sweep.ret >= 1
    /\ IMGHoliday \notin DOMAIN files
    /\ NotesTxt \in DOMAIN files
    /\ files[NotesTxt].mtime = 0 - 2 * 86400

\* C11: when handling one entry of a sweep raises, that entry is skipped:
\* every other expired entry named IMG_* is still deleted in the same sweep
\* and the value returned is the number of entries deleted.
C11_PerFileErrorSkipped ==
    [][(SweepStep /\ (sweep'.errs = 1 \/ sweep'.aborted)) =>
          /\ Removed \subseteq OldEntries
          /\ Cardinality(OldEntries \ Removed) <= 1
          /\ sweep'.ret = Cardinality(Removed)]_vars

\* The part of C11 that holds: an entry whose stat or unlink raises OSError is
\* skipped, the other expired entries are deleted and counted.
C11_OSErrorSkipped ==
    [][(SweepStep /\ sweep'.errs = 1 /\ ~sweep'.aborted) =>
          /\ Removed \subseteq OldEntries
          /\ Cardinality(OldEntries \ Removed) <= 1
          /\ sweep'.ret = Cardinality(Removed)]_vars

\* an OSError on one expired entry, the other expired entry deleted, 1 returned
C11_OSErrorWitness ==
    /\ sweep.live /\ sweep.errs = 1 /\ sweep.ret = 1 /\ sweep.days = 0
    /\ DOMAIN files = {NotesTxt, IMGHoliday}

\* C20: a sweep that an exception ends part-way, after it has deleted some
\* entries, does not raise and returns the number of files it had deleted.
C20_BestCount ==
    [][(SweepStep /\ sweep'.aborted) =>
          /\ ~sweep'.raised
          /\ sweep'.ret = Cardinality(Removed)]_vars

RECURSIVE StoredBytes(_)
StoredBytes(S) ==
    IF S = {} THEN 0
    ELSE LET i == CHOOSE j \in S : TRUE IN call.descs[i].size + StoredBytes(S \ {i})

\* C12: get_storage_info, when nothing fails in it, reports 0 files and 0
\* bytes for an empty directory, and after a batch has stored k files of sizes
\* s_1..s_k in a directory that held nothing before (none deleted since) it
\* reports total_files = k and total_size = s_1 + ... + s_k.
C12_UsageMatchesStored ==
    ( /\ probe.op = "info"
      /\ ~probe.out.error
      /\ \A n \in DOMAIN files : files[n].by # Outsider
      /\ \A i \in Succeeded : tasks[i].name \in DOMAIN files )
    => /\ probe.out.total_files = Cardinality(Succeeded)
       /\ probe.out.total_size = StoredBytes(Succeeded)

\* The part of C12 that holds: when every file in the directory was stored
\* whole by a task of the batch and no two tasks share a name, the report
\* counts the stored files and sums their sizes.
C12_UsageOfWholeFiles ==
    ( /\ probe.op = "info"
      /\ ~probe.out.error
      /\ \A n \in DOMAIN files :
            \E i \in Succeeded : tasks[i].name = n /\ files[n].by = Me(i)
      /\ \A i \in Succeeded : tasks[i].name \in DOMAIN files
      /\ \A i \in Succeeded, j \in Succeeded : tasks[i].name = tasks[j].name => i = j )
    => /\ probe.out.total_files = Cardinality(Succeeded)
       /\ probe.out.total_size = StoredBytes(Succeeded)

\* two files stored in an empty directory and reported
C12_WholeFilesWitness ==
    /\ probe.op = "info"
    /\ probe.out.total_files = 2
    /\ probe.out.total_size = 2 * MAX_FILE_SIZE
    /\ Cardinality(Succeeded) = 2

\* C12, on any directory: get_storage_info, when nothing fails in it,
\* reports 0 files and 0 bytes for an absent or empty directory, and otherwise
\* the number of the entries named IMG_* and the sum of the sizes of the same
\* entries.
C12_UsageReport ==
    (probe.op = "info" /\ ~probe.out.error) =>
        LET listed == {n \in DOMAIN files : n.prefix = "IMG_"}
        IN  IF dirState # "present" \/ DOMAIN files = {}
            THEN probe.out.total_files = 0 /\ probe.out.total_size = 0
            ELSE /\ probe.out.total_files = Cardinality(listed)
                 /\ probe.out.total_size = SumSizes(files, listed)

\* The part of C12 that holds: zeros for a directory that is absent, out of
\* reach or empty and for a failure inside the call; otherwise the number of
\* entries named IMG_* and the sum of the sizes of the regular files among them.
C12_UsageAsComputed ==
    probe.op = "info" =>
        LET listed == {n \in DOMAIN files : n.prefix = "IMG_"}
        IN  /\ ~probe.raised
            /\ IF probe.out.error \/ dirState # "present"
               THEN probe.out.total_files = 0 /\ probe.out.total_size = 0
               ELSE /\ probe.out.total_files = Cardinality(listed)
                    /\ probe.out.total_size =
                          SumSizes(files, {n \in listed : files[n].kind = "file"})

\* two stored files of 100 and 200 bytes reported as 2 files and 300 bytes
C12_UsageWitness ==
    /\ probe.op = "info"
    /\ DOMAIN files = {StoredA, StoredB}
    /\ probe.out.total_files = 2
    /\ probe.out.total_size = 300

\* C13: validate_attachment accepts a descriptor exactly when its lower-cased
\* extension is on the allow-list and its size is at most 8 MiB (8 MiB itself
\* is accepted); the format is checked first, so an unsupported name gets the
\* unsupported-format reason whatever its size, and an allow-listed oversize
\* one the too-large reason; an accepted one gets no reason.
C13_ValidatorContract ==
    probe.op = "validate" =>
        LET listed == probe.arg.filename \in
                         { <<"a", "png">>, <<"B", "JPG">>, <<"h", "Jpeg">> }
            small  == probe.arg.size <= 8 * 1024 * 1024
        IN  /\ ~probe.raised
            /\ probe.out.ok <=> (listed /\ small)
            /\ probe.out.ok => probe.out.msg = "None"
            /\ ~listed => probe.out.msg = "Unsupported file format"
            /\ (listed /\ ~small) => probe.out.msg = "File too large"

\* c.exe of 8 MiB + 1 bytes: unsupported and oversize, refused for its format
C13_Witness ==
    /\ probe.op = "validate"
    /\ probe.arg = [filename |-> <<"c", "exe">>, size |-> 8388609]
    /\ ~probe.out.ok
    /\ probe.out.msg = "Unsupported file format"

\* B.JPG of exactly 8 MiB is accepted
C13_BoundaryWitness ==
    /\ probe.op = "validate"
    /\ probe.arg = [filename |-> <<"B", "JPG">>, size |-> 8388608]
    /\ probe.out.ok

\* the extension the name of each filename must end in
ExpectedExtension(parts) ==
    CASE parts = <<"a", "png">> -> ".png"
      [] parts = <<"B", "JPG">> -> ".jpg"
      [] parts = <<"h", "Jpeg">> -> ".jpeg"
      [] parts = <<"c", "exe">> -> ".exe"
      [] parts = <<"g", "tar", "GZ">> -> ".gz"
      [] OTHER -> ".bin"

\* C14: for every filename the generated name is IMG_, eight digits, _, six
\* digits, _, six lower-case hexadecimal characters and then the extension of
\* the filename in lower case, or .bin when the filename has none.
C14_NameFormat ==
    probe.op = "name" =>
        LET t == probe.out.text
            digit == {"0", "1", "2", "3", "4", "5", "6", "7", "8", "9"}
            hex   == digit \cup {"a", "b", "c", "d", "e", "f"}
        IN  /\ Len(t) = 27
            /\ SubSeq(t, 1, 4) = <<"I", "M", "G", "_">>
            /\ \A k \in 5..12 : t[k] \in digit
            /\ t[13] = "_"
            /\ \A k \in 14..19 : t[k] \in digit
            /\ t[20] = "_"
            /\ \A k \in 21..26 : t[k] \in hex
            /\ t[27] = ExpectedExtension(probe.arg.filename)

\* .bashrc has no extension: the name made a day into the run, with the
\* suffix ffffff, ends in .bin
C14_Witness ==
    /\ probe.op = "name"
    /\ probe.arg.filename = <<"", "bashrc">>
    /\ SubSeq(probe.out.text, 5, 20) =
          <<"2", "0", "2", "6", "1", "1", "0", "4", "_", "0", "0", "0", "0", "0", "0", "_">>
    /\ SubSeq(probe.out.text, 21, 27) = <<"f", "f", "f", "f", "f", "f", ".bin">>

\* C15: for a descriptor that has filename, size and url, whatever the
\* network or the file system does, download_attachment ends with
\* FileMetadata or None: no exception leaves it.
C15_NoEscape ==
    \A i \in Idx :
        call.descs[i].hasName =>
            /\ tasks[i].outcome # "raised"
            /\ tasks[i].pc \in {"Stored", "Rejected", "Failed"} =>
                  tasks[i].outcome \in {"meta", "none"}

\* one download ended by a failing chmod and one by a transport error, both
\* giving None
C15_Witness ==
    \E i \in Idx, j \in Idx :
        /\ tasks[i].why = "chmod" /\ tasks[i].outcome = "none"
        /\ tasks[j].why = "transport" /\ tasks[j].outcome = "none"

ConstructStep == probe'.op = "construct"

\* what C16 says of one construction: it succeeds and changes nothing when
\* the directory exists, it fails exactly when the directory cannot be made,
\* a failure leaves no new manager, and a manager is there only with the
\* directory in place
ConstructionEnsures ==
    ConstructStep =>
        /\ dirState = "present" =>
              (~probe'.raised /\ dirState' = "present" /\ files' = files)
        /\ probe'.raised <=> dirState' # "present"
        /\ probe'.raised => mgr' = mgr
        /\ ~probe'.raised => mgr' = "ready"

\* C16: creating the storage directory is idempotent, a failure to create it
\* leaves the constructor, so that no manager is made without its directory,
\* and it is the only error that leaves any operation of the manager.
C16_OnlyConstructionRaises ==
    /\ [](probe.raised => probe.op = "construct")
    /\ [](~sweep.raised)
    /\ [][ConstructionEnsures]_vars

\* The part of C16 that holds: construction as C16 says, and get_storage_info
\* never raising.
C16_ConstructionEnsuresDirectory ==
    /\ [](probe.raised => probe.op = "construct")
    /\ [][ConstructionEnsures]_vars

\* a constructor that failed on a directory out of reach, with no manager made
C16_FailedConstructionWitness ==
    /\ probe.op = "construct" /\ probe.raised
    /\ mgr = "none" /\ dirState = "denied"

\* a second construction on the existing directory, its files as they were
C16_IdempotentWitness ==
    /\ probe.op = "construct" /\ ~probe.raised
    /\ mgr = "ready"
    /\ DOMAIN files = {StoredA, IMGCache, NotesTxt}
    /\ ioLog.dir = 0

ReturnStep == call.status = "running" /\ call'.status = "returned"

\* C17: with every sweep at an age of at least one day and every fetch ended
\* by its 30 s timeout at the latest, a sweep taken while a batch is running
\* deletes no file written by that batch, and every path the batch returns
\* names a file that is in the directory when it returns.
C17_SweepSparesBatch ==
    [][ /\ (SweepStep /\ call.status = "running") =>
              \A n \in DOMAIN files : files[n].by[1] = calls => n \in DOMAIN files'
        /\ ReturnStep =>
              \A k \in 1..Len(call'.result) : call'.result[k].name \in DOMAIN files' ]_vars

\* a sweep at the default age just ran, 30 s after a task of the running batch
\* stored its file, while the sibling is still fetching; the file is there
C17_Witness ==
    /\ sweep.live /\ sweep.days = 1 /\ ~sweep.aborted /\ sweep.errs = 0
    /\ call.status = "running"
    /\ \E i \in Idx, j \in Idx :
          /\ tasks[i].pc = "Stored"
          /\ tasks[i].name \in DOMAIN files
          /\ files[tasks[i].name].mtime < now
          /\ tasks[j].pc = "Fetching"

\* C18: a sweep with age 0 in which nothing fails removes every file of the
\* running batch that is older than the clock, whatever its siblings are
\* doing; the batch can then return the path of a file that is gone.
C18_ZeroAgeSweepDeletesBatchFiles ==
    [][(SweepStep /\ sweep'.days = 0 /\ sweep'.errs = 0 /\ ~sweep'.aborted
          /\ call.status = "running") =>
          \A n \in DOMAIN files :
              (files[n].by[1] = calls /\ files[n].mtime < now) => n \notin DOMAIN files']_vars

\* the batch has returned the path of a file stored by its first-settled
\* task, and the file is no longer in the directory
C18_Witness ==
    /\ call.status = "returned"
    /\ Len(settled) = 2
    /\ tasks[settled[1]].pc = "Stored"
    /\ tasks[settled[1]].name \notin DOMAIN files
    /\ \E k \in 1..Len(call.result) : call.result[k].name = tasks[settled[1]].name

\* the race itself: a zero-age sweep has just removed the file of a stored
\* task while its sibling is still fetching
C18_RaceWitness ==
    /\ sweep.live /\ sweep.days = 0
    /\ call.status = "running"
    /\ \E i \in Idx, j \in Idx :
          /\ tasks[i].pc = "Stored"
          /\ tasks[i].name \notin DOMAIN files
          /\ tasks[j].pc = "Fetching"

\* C19: every fetch in flight reaches a terminal outcome and every running
\* call returns, with no response ever needed; a step that ends one task
\* changes no other task (nothing cancels a batch), and a fetch ends by
\* timeout only when 30 s have passed since its GET.
C19_EveryCallReturns ==
    /\ \A i \in 1..MaxBatch :
          [](i \in Idx /\ tasks[i].pc = "Fetching" =>
                <>(i \in Idx /\ tasks[i].pc \in {"Stored", "Rejected", "Failed"}))
    /\ [](call.status = "running" => <>(call.status = "returned"))
    /\ [][\A i \in Idx :
            (calls' = calls /\ tasks[i].pc = "Fetching" /\ tasks'[i].pc # "Fetching") =>
                /\ \A j \in Idx : j # i => tasks'[j] = tasks[j]
                /\ tasks'[i].why = "timeout" => now' - tasks[i].t0 >= 30]_vars

\* a call that returned after a fetch with no response was ended by its timeout
C19_Witness ==
    /\ call.status = "returned"
    /\ \E i \in Idx :
          /\ tasks[i].why = "timeout"
          /\ tasks[i].resp = 0
          /\ now - tasks[i].t0 >= 30

\* the save of task i ends in this step on a failing write or chmod
SaveFails(i) ==
    /\ calls' = calls
    /\ i \in DOMAIN tasks'
    /\ tasks[i].pc = "Fetching"
    /\ tasks'[i].why \in {"write", "chmod"}

\* C21: when the write or the chmod fails after the file was opened,
\* download_attachment gives None and the file stays in the storage directory,
\* partly written or without its permission change; no later step of a
\* download or of the batch removes it (only a retention sweep can).
C21_PartialFileLeft ==
    [][ /\ \A i \in Idx :
              SaveFails(i) =>
                  /\ tasks'[i].pc = "Failed" /\ tasks'[i].outcome = "none"
                  /\ tasks[i].name \in DOMAIN files'
                  /\ files'[tasks[i].name].by = <<calls, i>>
                  /\ files'[tasks[i].name].st \in {"partial", "written"}
        /\ ~SweepStep =>
              \A n \in DOMAIN files :
                  files[n].st \in {"partial", "written"} => n \in DOMAIN files' ]_vars

\* the batch has returned: a task whose write failed gave None, its path is
\* not in the result, and half of its content is in the directory
C21_Witness ==
    /\ call.status = "returned"
    /\ \E i \in Idx :
          /\ tasks[i].why = "write" /\ tasks[i].outcome = "none"
          /\ tasks[i].name \in DOMAIN files
          /\ files[tasks[i].name].st = "partial"
          /\ files[tasks[i].name].size = MAX_FILE_SIZE \div 2
          /\ \A k \in 1..Len(call.result) : call.result[k].name # tasks[i].name

\* task i stores its file in this step
Stores(i) ==
    /\ calls' = calls
    /\ i \in DOMAIN tasks'
    /\ tasks[i].pc = "Fetching"
    /\ tasks'[i].pc = "Stored"

\* C22: two downloads of a batch that drew the same suffix in the same second
\* for the same extension have the same name; each save writes to that path
\* whatever is there (no check, no lock, no second name, no second GET), so
\* the file is the one of the later save; both report success and the batch
\* returns the same path twice.
C22_SameNameOverwritten ==
    /\ [](\A i \in Idx, j \in Idx :
            ( /\ tasks[i].name # NoName /\ tasks[j].name # NoName
              /\ tasks[i].name.sfx = tasks[j].name.sfx
              /\ tasks[i].name.ext = tasks[j].name.ext )
            => tasks[i].name = tasks[j].name)
    /\ [][\A i \in Idx :
            Stores(i) =>
                /\ tasks'[i].outcome = "meta"
                /\ tasks'[i].name = tasks[i].name /\ tasks'[i].gets = 1
                /\ files'[tasks[i].name].by = <<calls, i>>
                /\ files'[tasks[i].name].mtime = now]_vars
    /\ [](call.status = "returned" =>
            \A i \in Idx, j \in Idx :
                ( /\ i < j /\ tasks[i].name = tasks[j].name
                  /\ tasks[i].outcome = "meta" /\ tasks[j].outcome = "meta" )
                => \E k \in 1..Len(call.result), l \in 1..Len(call.result) :
                      /\ k < l
                      /\ call.result[k] = call.result[l]
                      /\ call.result[k].name = tasks[i].name)

\* both tasks were stored under one name, the second-submitted first; the
\* directory holds one file of the batch, written by the first-submitted,
\* and the result is that path twice
C22_Witness ==
    /\ call.status = "returned"
    /\ Len(call.result) = 2
    /\ call.result[1] = call.result[2]
    /\ settled = <<2, 1>>
    /\ Cardinality({n \in DOMAIN files : files[n].by # Outsider}) = 1
    /\ files[tasks[1].name].by = <<calls, 1>>

\* C23: the fan-out starts the fetch of every descriptor that passes
\* validation in one step, so a batch of n such descriptors has n fetches in
\* flight at once, however n compares with MAX_CONCURRENT_DOWNLOADS = 5.
C23_AllInFlightAtOnce ==
    [][calls' = calls + 1 =>
          Cardinality({i \in DOMAIN tasks' : tasks'[i].pc = "Fetching"})
            = Cardinality({i \in DOMAIN call'.descs : PassesPolicy(call'.descs[i])})]_vars

\* six fetches in flight, none settled yet
C23_Witness ==
    /\ call.status = "running"
    /\ Cardinality({i \in Idx : tasks[i].pc = "Fetching" /\ tasks[i].gets = 1}) > 5
    /\ settled = <<>>

\* the files a download has put in the directory
Downloaded == {n \in DOMAIN files : files[n].by # Outsider}

\* C24: every file a download has put in the directory has a name that begins
\* with IMG_, the prefix the sweep and the usage report select by: the report
\* counts it, and a sweep in which nothing raises removes it once its
\* modification time is before the cutoff.
C24_StoredFilesAreSwept ==
    /\ [](\A n \in Downloaded : n.prefix = "IMG_")
    /\ []((probe.op = "info" /\ ~probe.out.error) =>
            /\ probe.out.total_files >= Cardinality(Downloaded)
            /\ probe.out.total_files =
                  Cardinality(Downloaded)
                    + Cardinality({n \in DOMAIN files \ Downloaded : n.prefix = "IMG_"}))
    /\ [][(SweepStep /\ sweep'.errs = 0 /\ ~sweep'.aborted /\ ~sweep'.raised) =>
            \A n \in Downloaded :
                files[n].mtime < now - sweep'.days * 86400 => n \notin DOMAIN files']_vars

\* a day after the batch returned the path of a stored file, a sweep has
\* just removed that file
C24_Witness ==
    /\ sweep.live /\ sweep.ret >= 1 /\ sweep.errs = 0 /\ ~sweep.aborted
    /\ call.status = "returned"
    /\ now = 86400
    /\ \E i \in Idx :
          /\ tasks[i].pc = "Stored"
          /\ tasks[i].name \notin DOMAIN files
          /\ call.result = <<[dir |-> "attachments", name |-> tasks[i].name]>>

\* a stored file counted by the usage report
C24_CountedWitness ==
    /\ probe.op = "info"
    /\ probe.out.total_files = 1
    /\ Cardinality(Downloaded) = 1
    /\ \E i \in Idx : tasks[i].pc = "Stored" /\ tasks[i].name \in Downloaded

ReadyStep == bot'.readies = bot.readies + 1

IterationStep == bot'.iterations = bot.iterations + 1

\* C25: over any number of on_ready events the cleanup loop is started at
\* most once and at most one instance of it runs; every on_ready calls the
\* initial sweep, at the default age; once running the loop stays running,
\* also through an iteration whose sweep raised.
C25_OneCleanupLoop ==
    /\ [](bot.starts <= 1 /\ bot.running <= 1)
    /\ [](bot.initial = bot.readies)
    /\ [][ /\ ReadyStep => (sweep'.n = sweep.n + 1 /\ sweep'.live /\ sweep'.days = 1)
           /\ (bot.running = 1) => (bot'.running = 1)
           /\ (IterationStep /\ sweep'.raised) =>
                 (bot'.caught = bot.caught + 1 /\ bot'.running = 1) ]_vars

\* after two on_ready events the loop was started once; its first iteration
\* raised inside the sweep, and its second has just deleted a file
C25_Witness ==
    /\ bot.readies = 2 /\ bot.initial = 2
    /\ bot.starts = 1 /\ bot.running = 1
    /\ bot.iterations = 2 /\ bot.caught = 1
    /\ sweep.live /\ ~sweep.raised /\ sweep.ret = 1

\* the message at hand passed the three guards of on_message
Accepted ==
    /\ msg.author # "bot"
    /\ msg.channel = "mapped"
    /\ msg.loading = "sent"

\* C26: on_message posts a message to the bridge only if its author is not
\* the bot, its channel has a session and the loading message was sent; it
\* then posts it exactly once, with the paths process_attachments returned
\* (none when nothing was stored), and calls the edit of the loading message
\* exactly once, with the text made from the bridge's answer or from the
\* error of the post.  (A post that finds no bridge and an edit that fails are
\* a post and an edit: both failures are caught and logged.)
C26_ForwardedOnce ==
    /\ Len(msg.posts) <= 1 /\ Len(msg.edits) <= 1
    /\ Len(msg.posts) = 1 => Accepted
    /\ Len(msg.edits) = 1 => Len(msg.posts) = 1
    /\ (Accepted /\ msg.pc \in {"editing", "done"}) => Len(msg.posts) = 1
    /\ (Accepted /\ msg.pc = "done") =>
          /\ Len(msg.edits) = 1
          /\ msg.edits[1].text = msg.result
          /\ msg.result \in {"SUCCESS_MESSAGE", "status", "cannot connect", "error"}
    /\ Len(msg.posts) = 1 =>
          /\ msg.posts[1].paths = (IF msg.attachments = <<>> THEN <<>> ELSE call.result)
          /\ Len(msg.posts[1].paths) = Cardinality(Succeeded)
          /\ msg.posts[1].session = 1

\* a message whose two attachments gave nothing (one coroutine raised, one
\* descriptor was refused) was posted once without paths, the bridge typed
\* it into tmux, and the loading message was edited once
C26_Witness ==
    /\ msg.pc = "done"
    /\ msg.attachments = <<Nameless, BadExe>>
    /\ call.status = "returned" /\ call.result = <<>>
    /\ Len(msg.posts) = 1 /\ msg.posts[1].paths = <<>>
    /\ Len(msg.edits) = 1 /\ msg.edits[1].text = "SUCCESS_MESSAGE"

\* a message posted with the path of its stored attachment while no bridge
\* was listening, and an edit that failed
C26_ErrorTextWitness ==
    /\ msg.pc = "done"
    /\ Len(msg.posts) = 1 /\ Len(msg.posts[1].paths) = 1
    /\ msg.posts[1].paths[1].name \in DOMAIN files
    /\ msg.edits = <<[text |-> "cannot connect", ok |-> FALSE]>>

\* the send-keys calls of the request answered last, and its verdict
Attempts == bridge.keys

Verdict == validate_discord_message(bridge.data)

\* the message keys were sent exactly once, and Enter only after them and
\* only when they went through
ForwardedOnce ==
    /\ Len(Attempts) \in {1, 2}
    /\ Attempts[1].keys = "message"
    /\ Len(Attempts) = 2 => Attempts[1].out = "ok" /\ Attempts[2].keys = "C-m"

ForwardSucceeded ==
    /\ Len(Attempts) = 2
    /\ \A k \in 1..2 : Attempts[k].out = "ok"

\* C27: handle_discord_message makes no tmux call for a request that the
\* validator refuses (a required field missing, or a message longer than 4000)
\* and answers 400; for a request the validator accepts it forwards exactly
\* once, answering 200 iff the forward succeeded and 500 otherwise; Enter is
\* sent only after the message keys were sent successfully.
C27_BridgeContract ==
    bridge.n = 1 =>
        /\ (~Verdict.raised /\ ~Verdict.ok) =>
              Attempts = <<>> /\ bridge.status = 400
        /\ Verdict.ok =>
              /\ ForwardedOnce
              /\ bridge.status = (IF ForwardSucceeded THEN 200 ELSE 500)

\* C27, the part that holds: the same for every request whose message is a
\* string; a request whose message is of another type, or whose body is not
\* an object, is answered 400 or 500 and makes at most one tmux call, which
\* fails.
C27_StringMessagesForwardedOnce ==
    bridge.n = 1 =>
        /\ (~Verdict.raised /\ ~Verdict.ok) =>
              Attempts = <<>> /\ bridge.status = 400
        /\ (Verdict.ok /\ bridge.data.mtype = "str") =>
              /\ ForwardedOnce
              /\ bridge.status = (IF ForwardSucceeded THEN 200 ELSE 500)
        /\ (Verdict.raised \/ bridge.data.mtype # "str") =>
              /\ bridge.status \in {400, 500}
              /\ Len(Attempts) <= 1
              /\ \A k \in DOMAIN Attempts : Attempts[k].out = "error"

\* the message keys went through and Enter did not: 500 after two calls
C27_Witness ==
    /\ bridge.n = 1
    /\ bridge.data = Body("dict", {"message", "session", "channel_id"}, "str", 4000)
    /\ bridge.status = 500
    /\ Attempts = <<[keys |-> "message", out |-> "ok"], [keys |-> "C-m", out |-> "failed"]>>

\* a message of 101 list items, accepted by the validator and never typed
C27_AcceptedNotForwarded ==
    /\ bridge.n = 1
    /\ Verdict.ok
    /\ bridge.status = 500
    /\ Attempts = <<>>

====
